---------------------------- MODULE Spec2Model ----------------------------
(***************************************************************************)
(* A model of scripts/check-stars.py: one invocation of main() (load the   *)
(* snapshot, reconcile every repo and kind, send the notifications, save   *)
(* the snapshot), the notification stage on long queues, the retrying     *)
(* paginated fetchers github_request / get_dependents, and invocations of  *)
(* the script that follow one another on the same snapshot file.           *)
(*                                                                         *)
(* A fetched record is modelled by its identity key (the login or the      *)
(* full_name the script extracts from it); the fields used only to render  *)
(* the message text are left out.  A stored JSON list is modelled by the   *)
(* set the script builds from it with set(...).                            *)
(***************************************************************************)
EXTENDS Integers, Sequences, FiniteSets, TLC

\* ------------------------------------------------------------- constants

\* MAX_NOTIFICATIONS, the cap on individual messages per run.
MAX_NOTIFICATIONS == 20

\* Bound: what the remote may do over one run of main() beyond answering with
\* an empty list: each record it hands out and each fetch it fails counts one.
MaxRemote == 3

\* max_retries, the default of github_request and of get_dependents.
max_retries == 3

\* Bound: the pages the API splits one list into.
MaxPages == 3

\* Bound: the notifications one run of main() may have queued.
MaxPending == 25

\* Bound: the invocations of the script that follow one another.
MaxRuns == 3

Members == {"a", "b"}
Subjects == {"r1", "r2"}

\* The order in which main() handles the kinds of one repo.
Kinds == <<"stars", "forks", "watchers", "dependents">>
KindSet == {Kinds[i] : i \in DOMAIN Kinds}
LegacyKinds == {"stars", "forks", "watchers"}

NoTimestamp == "None"
EmptyMap == [x \in {} |-> {}]

\* f with key k set to v, as the Python assignment f[k] = v.
Put(f, k, v) == [x \in (DOMAIN f) \cup {k} |-> IF x = k THEN v ELSE f[x]]

Min(x, y) == IF x <= y THEN x ELSE y

SeqsUpTo(S, n) == UNION {[1..m -> S] : m \in 0..n}

\* ------------------------------------------------------- snapshot shapes

\* A stored repo entry: the legacy bare list of stargazers, or a dict of kinds.
ListEntry(S) == [shape |-> "list", items |-> S, kinds |-> EmptyMap]
DictEntry(f) == [shape |-> "dict", items |-> {}, kinds |-> f]

\* load_state's value when STATE_FILE does not exist.
NoFile == [exists |-> FALSE, last_run |-> NoTimestamp, repos |-> EmptyMap]
Doc(ts, rs) == [exists |-> TRUE, last_run |-> ts, repos |-> rs]

load_state(f) == [last_run |-> f.last_run, repos |-> f.repos]

\* ----------------------------------------------------- the reconciliation

\* A get_* result: None, or the list of records.
None == [ok |-> FALSE, records |-> <<>>]
Fetched(recs) == [ok |-> TRUE, records |-> recs]

\* Faulty variant: a legacy list is read as no entry.
RepoState_forgets_legacy(st, repo) ==
    IF repo \notin DOMAIN st.repos THEN EmptyMap
    ELSE IF st.repos[repo].shape = "list" THEN EmptyMap
    ELSE st.repos[repo].kinds

\* repo_state after lines 297-302: the stored entry, {} when there is none,
\* a legacy list turned into a dict without the "dependents" key.
RepoState(st, repo) ==
    IF repo \notin DOMAIN st.repos THEN EmptyMap
    ELSE LET e == st.repos[repo]
         IN  IF e.shape = "list"
             THEN [k \in LegacyKinds |-> IF k = "stars" THEN e.items ELSE {}]
             ELSE e.kinds

\* had_dependents_tracking, line 299 (taken before the migration).
HadDependentsTracking(st, repo) ==
    /\ repo \in DOMAIN st.repos
    /\ st.repos[repo].shape = "dict"
    /\ "dependents" \in DOMAIN st.repos[repo].kinds

\* known_<kind> = set(repo_state.get(kind, [])).
Known(st, repo, kind) ==
    LET rs == RepoState(st, repo)
    IN  IF kind \in DOMAIN rs THEN rs[kind] ELSE {}

\* current_<kind>: the set comprehension over the fetched records.
IdentitySet(recs) == {recs[i] : i \in DOMAIN recs}

\* Faulty variant: the guard never fires.
is_suspicious_never(current, known) == FALSE

\* Faulty variant: the guard looks at one known member as at none.
is_suspicious_over_one(current, known) ==
    Cardinality(current) = 0 /\ Cardinality(known) > 1

is_suspicious_empty(current, known) ==
    Cardinality(current) = 0 /\ Cardinality(known) > 0

\* The records the inner for loop acts on: those whose identity is in
\* new_<kind> = current - known, in fetched order (the loop runs over the
\* records, not over the set).
NewRecords(recs, known) ==
    LET new == IdentitySet(recs) \ known
        RECURSIVE walk(_)
        walk(i) == IF i > Len(recs) THEN <<>>
                   ELSE IF recs[i] \in new THEN <<recs[i]>> \o walk(i + 1)
                   ELSE walk(i + 1)
    IN  walk(1)

\* The events of one kind's block: none when the fetch failed or the result
\* is suspiciously empty.
Events(f, known) ==
    IF ~f.ok THEN <<>>
    ELSE IF is_suspicious_empty(IdentitySet(f.records), known) THEN <<>>
    ELSE NewRecords(f.records, known)

\* Faulty variant: a failed fetch is saved as the empty list.
ToSave_wipes_on_failure(f, known) ==
    IF ~f.ok THEN {}
    ELSE IF is_suspicious_empty(IdentitySet(f.records), known) THEN known
    ELSE IdentitySet(f.records)

\* <kind>_to_save of one kind's block.
ToSave(f, known) ==
    IF ~f.ok THEN known
    ELSE IF is_suspicious_empty(IdentitySet(f.records), known) THEN known
    ELSE IdentitySet(f.records)

\* Faulty variant: the first run is not told apart.
Notifies_on_first_run(kind, first_run, had_tracking) ==
    IF kind = "dependents" THEN had_tracking ELSE TRUE

\* Faulty variant: every kind is gated like the dependents.
Notifies_tracked_only(kind, first_run, had_tracking) == ~first_run /\ had_tracking

\* Whether the block of `kind` appends a message for a new record.
Notifies(kind, first_run, had_tracking) ==
    IF kind = "dependents" THEN ~first_run /\ had_tracking ELSE ~first_run

Message(repo, kind, member) ==
    [type |-> "event", repo |-> repo, kind |-> kind, member |-> member, more |-> 0]

\* The summary message of line 408.
Summary(remaining) ==
    [type |-> "summary", repo |-> "", kind |-> "", member |-> "", more |-> remaining]

\* Faulty variant: the newest event first.
Messages_newest_first(repo, kind, evs) ==
    [i \in 1..Len(evs) |-> Message(repo, kind, evs[Len(evs) + 1 - i])]

\* The messages lines 316-318 (338-341, 360-362, 381-383) append, one per
\* event, in the order of the events.
Messages(repo, kind, evs) == [i \in 1..Len(evs) |-> Message(repo, kind, evs[i])]

\* Faulty variant: the slice is one too long.
Capped_one_more(pending) ==
    SubSeq(pending, 1, Min(Len(pending), MAX_NOTIFICATIONS + 1))

\* pending_notifications[:MAX_NOTIFICATIONS]
Capped(pending) == SubSeq(pending, 1, Min(Len(pending), MAX_NOTIFICATIONS))


\* ------------------------------------------------------------------ state

VARIABLES
    pc,                     \* where main() is: loading, reconciling, notifying,
                            \* persisting, done, or aborted by an exception
    file,                   \* STATE_FILE
    state,                  \* main's state dict
    repos,                  \* main's repos, the listing of get_org_repos()
    is_first_run,
    ri,                     \* position of the for loop over repos
    ki,                     \* the kind block of the loop body to run next
    to_save,                \* stars_to_save .. dependents_to_save of this repo
    fetched,                \* the value the last get_* call returned
    pending_notifications,
    total_new,
    notifications_sent,
    sent,                   \* the messages the webhook accepted, in order
    writes,                 \* how often STATE_FILE was written
    failed,                 \* history: the <<repo, kind>> whose get_* returned None
    loaded,                 \* history: STATE_FILE as the run found it
    undelivered,            \* history: notify_matrix calls that raised
    quota,                  \* what is left of MaxRemote
    \* one call of get_stargazers / get_forks / get_watchers / get_dependents
    fn,                     \* the kind whose get_* function runs
    remote_pages,           \* the pages the API serves for the list
    html,                   \* the dependents page github.com serves
    url,                    \* github_request's url: the page to get, 0 for None
    results,                \* github_request's results
    attempt,                \* the attempt of the for loop to run next
    last_error,             \* whether github_request's last_error is set
    last_attempt,           \* history: what the last attempt met and slept
    page_failures,          \* history: failed attempts at the current page
    all_failures,           \* history: failed attempts of the whole call
    fres,                   \* the call's outcome
    \* the invocations of the script, one after the other
    run,                    \* the number of this invocation
    remote,                 \* what GitHub holds and how it answers this run
    derived,                \* history: what this run's blocks counted and queued
    previous,               \* history: how the invocation before this one went
    resident                \* history: the members there since tracking began

vars == <<pc, file, state, repos, is_first_run, ri, ki, to_save, fetched,
          pending_notifications, total_new, notifications_sent, sent, writes,
          failed, loaded, undelivered, quota, fn, remote_pages, html, url, results, attempt,
          last_error, last_attempt, page_failures, all_failures, fres,
          run, remote, derived, previous, resident>>

\* The variables of the sequence of invocations, of main() and of one get_*
\* call.
runsVars == <<run, remote, previous, resident>>
mainVars == <<pc, file, state, repos, is_first_run, ri, ki, to_save, fetched,
              pending_notifications, total_new, notifications_sent, sent, writes,
              failed, loaded, undelivered, quota, derived, runsVars>>
fetchVars == <<fn, remote_pages, html, url, results, attempt, last_error,
               last_attempt, page_failures, all_failures, fres>>

NoState == [last_run |-> NoTimestamp, repos |-> EmptyMap]
ZeroTotals == [k \in KindSet |-> 0]

\* Nothing derived yet: no kind block has run.
NoDerived == [pending |-> <<>>, total |-> ZeroTotals, blocks |-> 0]
NoPrevious == [rerun |-> FALSE, derived |-> NoDerived]
NoResident == [bootstrap |-> {}, tracking |-> {}]

\* One invocation is looked at by itself: what GitHub holds is left open.
NoRemote == [kind |-> "stars", members |-> <<>>, mode |-> "ok"]
SingleRun ==
    /\ run = 1
    /\ remote = NoRemote
    /\ previous = NoPrevious
    /\ resident = NoResident

\* ------------------------------------------------------------ the inputs

\* The known sets a stored entry may hold.
KnownMenu ==
    { [k \in KindSet |-> {}],
      [k \in KindSet |-> {"a"}],
      [k \in KindSet |-> {"a", "b"}],
      [k \in KindSet |-> IF k = "stars" THEN {"a"}
                         ELSE IF k = "forks" THEN {"b"}
                         ELSE IF k = "watchers" THEN {} ELSE {"a", "b"}] }

Restrict(f, D) == [k \in D |-> f[k]]

\* Stored entries: the legacy list, a dict written before dependents were
\* tracked, and a dict as lines 393-398 write it.
EntryMenu ==
    {ListEntry(S) : S \in {{}, {"a"}, {"a", "b"}}}
    \cup {DictEntry(Restrict(f, LegacyKinds)) : f \in KnownMenu}
    \cup {DictEntry(f) : f \in KnownMenu}

\* The snapshot files a run may find: none, or a document with an entry for
\* r1, for r2, or for neither.
InitFiles ==
    {NoFile}
    \cup {Doc(ts, EmptyMap) : ts \in {NoTimestamp, "t0"}}
    \cup {Doc(ts, [s \in {"r1"} |-> e]) : ts \in {NoTimestamp, "t0"}, e \in EntryMenu}
    \cup {Doc("t0", [s \in Subjects |-> e]) : e \in EntryMenu}

\* The listings get_org_repos() may return: the public repos among r1, r2,
\* in the order of the API.
Listings == {<<>>, <<"r1">>, <<"r2">>, <<"r1", "r2">>}

\* What the remote costs of MaxRemote for a get_* result.
Cost(f) == IF f.ok THEN Len(f.records) ELSE 1

\* What a get_* call may return: None, or a list of records.
FetchOutcomes(q) ==
    {f \in {None} \cup {Fetched(r) : r \in SeqsUpTo(Members, q)} : Cost(f) <= q}

\* ------------------------------------------------------------ the fetchers

\* The statuses github_request and get_dependents retry after a sleep, and
\* other error statuses, for which raise_for_status() raises an HTTPError.
RetryableStatus == {429, 502, 503, 504}
ErrorStatus == {404, 500}

\* response.raise_for_status() raises for a 4xx or 5xx status.
RaisesForStatus(status) == status >= 400

\* A Retry-After header: absent, or its text.
NoHeader == [present |-> FALSE, text |-> ""]
Header(t) == [present |-> TRUE, text |-> t]
Headers ==
    {NoHeader} \cup
    {Header(t) : t \in {"0", "1", "3", "5", "-1", "Wed, 21 Oct 2015 07:28:00 GMT"}}

\* Python's int() on the header texts above: the decimal integers parse, any
\* other text is a ValueError.
IntText == ("0" :> 0) @@ ("1" :> 1) @@ ("3" :> 3) @@ ("5" :> 5) @@ ("-1" :> (0 - 1))

\* The backoff 2 ** attempt.
Backoff(a) == 2 ^ a

\* Faulty variant: the longer of the header's seconds and the backoff.
retry_after_max(h, a) ==
    IF ~h.present THEN [raises |-> FALSE, secs |-> Backoff(a)]
    ELSE IF h.text \notin DOMAIN IntText THEN [raises |-> TRUE, secs |-> 0]
    ELSE IF IntText[h.text] < 0 THEN [raises |-> TRUE, secs |-> 0]
    ELSE [raises |-> FALSE,
          secs |-> IF IntText[h.text] >= Backoff(a) THEN IntText[h.text]
                   ELSE Backoff(a)]

\* Lines 40-42 and 195-197: int(headers.get("Retry-After", 2 ** attempt)),
\* then time.sleep of it.  int() raises ValueError on a text that is no
\* integer, time.sleep on a negative number.
retry_after(h, a) ==
    IF ~h.present THEN [raises |-> FALSE, secs |-> Backoff(a)]
    ELSE IF h.text \notin DOMAIN IntText THEN [raises |-> TRUE, secs |-> 0]
    ELSE IF IntText[h.text] < 0 THEN [raises |-> TRUE, secs |-> 0]
    ELSE [raises |-> FALSE, secs |-> IntText[h.text]]

\* The outcome of a get_* call.
Running == [status |-> "running", value |-> None]
Returned(v) == [status |-> "returned", value |-> v]
Raised == [status |-> "raised", value |-> None]

Exc(name) == [exc |-> name, value |-> <<>>]
Value(v) == [exc |-> "", value |-> v]

\* Faulty variant: a RequestException becomes the empty list.
get_list_empty_on_error(outcome) ==
    IF outcome.exc = "RequestException" THEN Returned(Fetched(<<>>))
    ELSE IF outcome.exc = "ValueError" THEN Raised
    ELSE Returned(Fetched(outcome.value))

\* get_stargazers, get_forks, get_watchers around github_request: a
\* RequestException becomes None, any other exception passes through.
get_list(outcome) ==
    IF outcome.exc = "RequestException" THEN Returned(None)
    ELSE IF outcome.exc = "ValueError" THEN Raised
    ELSE Returned(Fetched(outcome.value))

\* Faulty variant: the page replaces what was gathered.
extend_replaces(res, data) == data

\* results.extend(data), line 47.
extend(res, data) == res \o data

\* The for-else of lines 60-64 after the last attempt met `status`.
retries_exhausted(had_error, status) ==
    IF had_error THEN Exc("RequestException")
    ELSE IF RaisesForStatus(status) THEN Exc("RequestException")
    ELSE Exc("")

\* The dependents page: whether it holds the #dependents container, and its
\* .Box-row items, each the full_name its repository link names or "-" for
\* a row without such a link.
NoHtml == [landmark |-> FALSE, rows |-> <<>>]
RowSeqs == {<<>>, <<"a">>, <<"-", "b">>, <<"b", "-", "a">>}
Htmls == {[landmark |-> l, rows |-> r] : l \in BOOLEAN, r \in RowSeqs}

\* Lines 205-241: None without the container, else one record per row with
\* a repository link.
parse_dependents(page) ==
    IF ~page.landmark THEN None
    ELSE Fetched(SelectSeq(page.rows, LAMBDA r : r # "-"))

PageMenu == {<<>>, <<"a">>, <<"b">>}
PageLists == UNION {[1..n -> PageMenu] : n \in 1..MaxPages}

NoAttempt ==
    [met |-> "nothing", attempt |-> 0, status |-> 0, header |-> NoHeader,
     slept |-> FALSE, secs |-> 0, exhausted |-> FALSE]
Met(what, a, status, h, slept, secs, exhausted) ==
    [met |-> what, attempt |-> a, status |-> status, header |-> h,
     slept |-> slept, secs |-> secs, exhausted |-> exhausted]

FetchIdle ==
    /\ fn = "stars"
    /\ remote_pages = <<>>
    /\ html = NoHtml
    /\ url = 0
    /\ results = <<>>
    /\ attempt = 0
    /\ last_error = FALSE
    /\ last_attempt = NoAttempt
    /\ page_failures = 0
    /\ all_failures = 0
    /\ fres = Running

\* main() is not running: only a get_* call is looked at.
MainIdle ==
    /\ pc = "idle"
    /\ file = NoFile
    /\ state = NoState
    /\ repos = <<>>
    /\ is_first_run = FALSE
    /\ ri = 1
    /\ ki = 1
    /\ to_save = EmptyMap
    /\ fetched = None
    /\ pending_notifications = <<>>
    /\ total_new = ZeroTotals
    /\ notifications_sent = 0
    /\ sent = <<>>
    /\ writes = 0
    /\ failed = {}
    /\ loaded = NoFile
    /\ undelivered = 0
    /\ quota = 0
    /\ derived = NoDerived
    /\ SingleRun

\* A call get_<fn>(repo) starts against some remote content.
InitFetch ==
    /\ MainIdle
    /\ fn \in KindSet
    /\ IF fn = "dependents"
       THEN remote_pages = <<>> /\ html \in Htmls
       ELSE remote_pages \in PageLists /\ html = NoHtml
    /\ url = 1
    /\ results = <<>>
    /\ attempt = 0
    /\ last_error = FALSE
    /\ last_attempt = NoAttempt
    /\ page_failures = 0
    /\ all_failures = 0
    /\ fres = Running

\* The call ends with outcome r.
Finish(r) ==
    /\ fres' = r
    /\ UNCHANGED <<url, results, attempt, last_error>>

\* github_request, lines 52-59: requests.get raises a RequestException, or
\* the status is an error that is not retried and raise_for_status() raises.
github_request_exception ==
    /\ fres = Running /\ fn # "dependents"
    /\ \E status \in {0} \cup ErrorStatus :
        /\ status = 0 \/ RaisesForStatus(status)
        /\ IF attempt < max_retries - 1
           THEN /\ last_attempt' = Met("exception", attempt, status, NoHeader,
                                       TRUE, Backoff(attempt), FALSE)
                /\ attempt' = attempt + 1
                /\ last_error' = TRUE
                /\ UNCHANGED <<url, results, fres>>
           ELSE /\ last_attempt' = Met("exception", attempt, status, NoHeader,
                                       FALSE, 0, TRUE)
                /\ Finish(get_list(Exc("RequestException")))
    /\ page_failures' = page_failures + 1
    /\ all_failures' = all_failures + 1
    /\ UNCHANGED <<fn, remote_pages, html, mainVars>>

\* github_request, lines 39-43 and 60-64: a 429, 502, 503 or 504.
github_request_retryable ==
    /\ fres = Running /\ fn # "dependents"
    /\ \E status \in RetryableStatus, h \in Headers :
        LET d == retry_after(h, attempt)
            last == attempt = max_retries - 1
        IN  IF d.raises
            THEN /\ last_attempt' = Met("status", attempt, status, h, FALSE, 0, FALSE)
                 /\ Finish(get_list(Exc("ValueError")))
            ELSE /\ last_attempt' = Met("status", attempt, status, h, TRUE, d.secs, last)
                 /\ IF ~last
                    THEN /\ attempt' = attempt + 1
                         /\ UNCHANGED <<url, results, last_error, fres>>
                    ELSE IF retries_exhausted(last_error, status).exc # ""
                    THEN Finish(get_list(retries_exhausted(last_error, status)))
                    ELSE /\ attempt' = 0
                         /\ last_error' = FALSE
                         /\ UNCHANGED <<url, results, fres>>
    /\ page_failures' = page_failures + 1
    /\ all_failures' = all_failures + 1
    /\ UNCHANGED <<fn, remote_pages, html, mainVars>>

\* github_request, lines 44-51 and 65: a page of the list arrives.
github_request_page ==
    /\ fres = Running /\ fn # "dependents"
    /\ LET data == remote_pages[url]
           next == IF url < Len(remote_pages) THEN url + 1 ELSE 0
       IN  /\ results' = extend(results, data)
           /\ url' = next
           /\ attempt' = 0
           /\ last_error' = FALSE
           /\ fres' = IF next = 0 THEN get_list(Value(extend(results, data))) ELSE Running
    /\ last_attempt' = Met("page", attempt, 200, NoHeader, FALSE, 0, FALSE)
    /\ page_failures' = 0
    /\ UNCHANGED <<fn, remote_pages, html, all_failures, mainVars>>

\* get_dependents, lines 242-249: a RequestException (requests.get, or
\* raise_for_status on line 199).
get_dependents_exception ==
    /\ fres = Running /\ fn = "dependents"
    /\ \E status \in {0} \cup ErrorStatus :
        /\ status = 0 \/ RaisesForStatus(status)
        /\ IF attempt < max_retries - 1
           THEN /\ last_attempt' = Met("exception", attempt, status, NoHeader,
                                       TRUE, Backoff(attempt), FALSE)
                /\ attempt' = attempt + 1
                /\ UNCHANGED <<url, results, last_error, fres>>
           ELSE /\ last_attempt' = Met("exception", attempt, status, NoHeader,
                                       FALSE, 0, TRUE)
                /\ Finish(Returned(None))
    /\ page_failures' = page_failures + 1
    /\ all_failures' = all_failures + 1
    /\ UNCHANGED <<fn, remote_pages, html, mainVars>>

\* get_dependents, lines 194-198 and 251: a 429, 502, 503 or 504.  The
\* ValueError of int() is no RequestException: it leaves get_dependents.
get_dependents_retryable ==
    /\ fres = Running /\ fn = "dependents"
    /\ \E status \in RetryableStatus, h \in Headers :
        LET d == retry_after(h, attempt)
            last == attempt = max_retries - 1
        IN  IF d.raises
            THEN /\ last_attempt' = Met("status", attempt, status, h, FALSE, 0, FALSE)
                 /\ Finish(Raised)
            ELSE /\ last_attempt' = Met("status", attempt, status, h, TRUE, d.secs, last)
                 /\ IF ~last
                    THEN /\ attempt' = attempt + 1
                         /\ UNCHANGED <<url, results, last_error, fres>>
                    ELSE Finish(Returned(None))
    /\ page_failures' = page_failures + 1
    /\ all_failures' = all_failures + 1
    /\ UNCHANGED <<fn, remote_pages, html, mainVars>>

\* get_dependents, lines 199-241: the page arrives.
get_dependents_page ==
    /\ fres = Running /\ fn = "dependents"
    /\ last_attempt' = Met("page", attempt, 200, NoHeader, FALSE, 0, FALSE)
    /\ Finish(Returned(parse_dependents(html)))
    /\ UNCHANGED <<fn, remote_pages, html, page_failures, all_failures, mainVars>>

NextFetch ==
    \/ github_request_exception
    \/ github_request_retryable
    \/ github_request_page
    \/ get_dependents_exception
    \/ get_dependents_retryable
    \/ get_dependents_page

SpecFetch == InitFetch /\ [][NextFetch]_vars

\* -------------------------------------------------------------- the run

Init ==
    /\ pc = "loading"
    /\ file \in InitFiles
    /\ state = NoState
    /\ repos = <<>>
    /\ is_first_run = FALSE
    /\ ri = 1
    /\ ki = 1
    /\ to_save = EmptyMap
    /\ fetched = None
    /\ pending_notifications = <<>>
    /\ total_new = ZeroTotals
    /\ notifications_sent = 0
    /\ sent = <<>>
    /\ writes = 0
    /\ failed = {}
    /\ loaded = file
    /\ undelivered = 0
    /\ quota = 0
    /\ derived = NoDerived
    /\ SingleRun
    /\ FetchIdle

\* An exception leaves main(): the process ends, its memory is gone.
Abort ==
    /\ pc' = "aborted"
    /\ state' = NoState
    /\ repos' = <<>>
    /\ is_first_run' = FALSE
    /\ ri' = 1
    /\ ki' = 1
    /\ to_save' = EmptyMap
    /\ fetched' = None
    /\ pending_notifications' = <<>>
    /\ total_new' = ZeroTotals
    /\ notifications_sent' = 0
    /\ failed' = {}
    /\ quota' = 0

\* Lines 287-293 when get_org_repos() returns `listing`.
LoadWith(listing) ==
    /\ state' = load_state(file)
    /\ repos' = listing
    /\ is_first_run' = (file.last_run = NoTimestamp)
    /\ pc' = IF Len(listing) = 0 THEN "notifying" ELSE "reconciling"
    /\ quota' = MaxRemote
    /\ UNCHANGED <<file, ri, ki, to_save, fetched, pending_notifications,
                   total_new, notifications_sent, sent, writes, failed, loaded,
                   undelivered, fetchVars, derived>>

\* Lines 287-293: load the snapshot and the listing.
Load ==
    /\ pc = "loading"
    /\ \E listing \in Listings : LoadWith(listing)
    /\ UNCHANGED runsVars

\* get_org_repos() raises (github_request ran out of retries): nothing
\* catches it in main().
LoadRaise ==
    /\ pc = "loading"
    /\ Abort
    /\ UNCHANGED <<file, sent, writes, loaded, undelivered, fetchVars, derived, runsVars>>

\* One kind block of the loop body (stars 303-323, forks 325-346, watchers
\* 348-367, dependents 369-388); the dependents block is followed by the
\* update of state["repos"][repo_name] (390-398) and the loop's step.
Reconcile(f) ==
    LET repo == repos[ri]
        kind == Kinds[ki]
        known == Known(state, repo, kind)
        evs == Events(f, known)
        saved == Put(to_save, kind, ToSave(f, known))
    IN  /\ fetched' = f
        /\ quota' = quota - Cost(f)
        /\ failed' = IF f.ok THEN failed ELSE failed \cup {<<repo, kind>>}
        /\ total_new' = [total_new EXCEPT ![kind] = @ + Len(evs)]
        /\ pending_notifications' =
             IF Notifies(kind, is_first_run, HadDependentsTracking(state, repo))
             THEN pending_notifications \o Messages(repo, kind, evs)
             ELSE pending_notifications
        /\ derived' = [pending |-> pending_notifications', total |-> total_new',
                       blocks |-> derived.blocks + 1]
        /\ IF ki < Len(Kinds)
           THEN /\ to_save' = saved
                /\ ki' = ki + 1
                /\ UNCHANGED <<state, ri, pc>>
           ELSE /\ state' = [state EXCEPT !.repos = Put(@, repo, DictEntry(saved))]
                /\ to_save' = EmptyMap
                /\ ki' = 1
                /\ ri' = ri + 1
                /\ pc' = IF ri = Len(repos) THEN "notifying" ELSE "reconciling"
        /\ UNCHANGED <<file, repos, is_first_run, notifications_sent, sent, writes,
                       loaded, undelivered, fetchVars, runsVars>>

\* The block when the remote may answer anything.
ReconcileKind ==
    /\ pc = "reconciling"
    /\ \E f \in FetchOutcomes(quota) : Reconcile(f)

\* An exception no handler of the kind block catches: int() of a Retry-After
\* header that is no integer (lines 40, 195) is a ValueError, which the
\* except clauses for RequestException (146, 160, 174, 242, 89) let through.
ReconcileRaise ==
    /\ pc = "reconciling"
    /\ Abort
    /\ UNCHANGED <<file, sent, writes, loaded, undelivered, fetchVars, derived, runsVars>>

\* Faulty variant: a message is sent as soon as it is queued.
NotifyOne_while_reconciling ==
    /\ pc \in {"reconciling", "notifying"}
    /\ notifications_sent < Len(Capped(pending_notifications))
    /\ sent' = Append(sent, pending_notifications[notifications_sent + 1])
    /\ notifications_sent' = notifications_sent + 1
    /\ UNCHANGED <<pc, file, state, repos, is_first_run, ri, ki, to_save, fetched,
                   pending_notifications, total_new, writes, failed, loaded,
                   undelivered, quota, fetchVars, derived, runsVars>>

\* One round of the loop of lines 401-403 in which notify_matrix returns.
NotifyOne ==
    /\ pc = "notifying"
    /\ notifications_sent < Len(Capped(pending_notifications))
    /\ sent' = Append(sent, pending_notifications[notifications_sent + 1])
    /\ notifications_sent' = notifications_sent + 1
    /\ UNCHANGED <<pc, file, state, repos, is_first_run, ri, ki, to_save, fetched,
                   pending_notifications, total_new, writes, failed, loaded,
                   undelivered, quota, fetchVars, derived, runsVars>>

\* Lines 406-410, after the loop: the summary, when more than the cap is
\* pending.
SummaryStep ==
    /\ pc = "notifying"
    /\ notifications_sent = Len(Capped(pending_notifications))
    /\ LET remaining == Len(pending_notifications) - MAX_NOTIFICATIONS
       IN  sent' = IF remaining > 0 THEN Append(sent, Summary(remaining)) ELSE sent
    /\ pc' = "persisting"
    /\ UNCHANGED <<file, state, repos, is_first_run, ri, ki, to_save, fetched,
                   pending_notifications, total_new, notifications_sent, writes,
                   failed, loaded, undelivered, quota, fetchVars, derived, runsVars>>

\* Faulty variant: the snapshot is written before the exception leaves.
NotifyRaise_after_saving ==
    /\ pc = "notifying"
    /\ \/ notifications_sent < Len(Capped(pending_notifications))
       \/ Len(pending_notifications) > MAX_NOTIFICATIONS
    /\ undelivered' = undelivered + 1
    /\ file' = Doc("t1", state.repos)
    /\ Abort
    /\ UNCHANGED <<sent, writes, loaded, fetchVars, derived, runsVars>>

\* notify_matrix raises (requests.post fails, or raise_for_status on line
\* 283): main() has no handler around lines 402 and 409.
NotifyRaise ==
    /\ pc = "notifying"
    /\ \/ notifications_sent < Len(Capped(pending_notifications))
       \/ Len(pending_notifications) > MAX_NOTIFICATIONS
    /\ undelivered' = undelivered + 1
    /\ Abort
    /\ UNCHANGED <<file, sent, writes, loaded, fetchVars, derived, runsVars>>

\* Faulty variant: only the repos of the listing are written.
SaveState_listed_only ==
    /\ pc = "persisting"
    /\ state' = [state EXCEPT !.last_run = "t1"]
    /\ file' = Doc("t1", [s \in IdentitySet(repos) |-> state.repos[s]])
    /\ writes' = writes + 1
    /\ pc' = "done"
    /\ UNCHANGED <<repos, is_first_run, ri, ki, to_save, fetched,
                   pending_notifications, total_new, notifications_sent, sent,
                   failed, loaded, undelivered, quota, fetchVars, derived, runsVars>>

\* save_state(state), line 412.
SaveState ==
    /\ pc = "persisting"
    /\ state' = [state EXCEPT !.last_run = "t1"]
    /\ file' = Doc("t1", state.repos)
    /\ writes' = writes + 1
    /\ pc' = "done"
    /\ UNCHANGED <<repos, is_first_run, ri, ki, to_save, fetched,
                   pending_notifications, total_new, notifications_sent, sent,
                   failed, loaded, undelivered, quota, fetchVars, derived, runsVars>>

Next ==
    \/ Load
    \/ LoadRaise
    \/ ReconcileKind
    \/ ReconcileRaise
    \/ NotifyOne
    \/ SummaryStep
    \/ NotifyRaise
    \/ SaveState

Spec == Init /\ [][Next]_vars

\* main() after its loop over repos, on a run that is not the first, found
\* no entry for r1 and P new stargazers 1..P of it: P messages are pending.
InitBatch ==
    \E P \in 0..MaxPending :
        LET stars == [i \in 1..P |-> i]
            entry == DictEntry([k \in KindSet |->
                                  IF k = "stars" THEN IdentitySet(stars) ELSE {}])
        IN  /\ pc = "notifying"
            /\ file = Doc("t0", EmptyMap)
            /\ loaded = file
            /\ state = [last_run |-> "t0", repos |-> [s \in {"r1"} |-> entry]]
            /\ repos = <<"r1">>
            /\ is_first_run = FALSE
            /\ ri = 2
            /\ ki = 1
            /\ to_save = EmptyMap
            /\ fetched = Fetched(<<>>)
            /\ pending_notifications = Messages("r1", "stars", stars)
            /\ total_new = [ZeroTotals EXCEPT !["stars"] = P]
            /\ notifications_sent = 0
            /\ sent = <<>>
            /\ writes = 0
            /\ failed = {}
            /\ undelivered = 0
            /\ quota = 0
            /\ derived = [pending |-> pending_notifications, total |-> total_new,
                          blocks |-> Len(Kinds)]
            /\ SingleRun
            /\ FetchIdle

NextBatch ==
    \/ NotifyOne
    \/ SummaryStep
    \/ NotifyRaise
    \/ SaveState

SpecBatch == InitBatch /\ [][NextBatch]_vars

\* ------------------------------------------- one invocation after another

\* The organisation has the one public repo r1 throughout.
Watched == <<"r1">>

\* What GitHub holds of one kind of r1, in the order it lists the records,
\* and how it answers for that kind during one invocation: with the records,
\* with errors until the retries run out, or with an empty result.  The
\* collections of the other kinds are empty.
Collections == {<<>>, <<"a">>, <<"b">>, <<"b", "a">>}
Modes == {"ok", "fails", "empty"}
Remotes == {[kind |-> k, members |-> c, mode |-> m] :
               k \in KindSet, c \in Collections, m \in Modes}

\* What get_<kind>("r1") returns against the remote r.
Answer(r, kind) ==
    IF kind # r.kind THEN Fetched(<<>>)
    ELSE IF r.mode = "fails" THEN None
    ELSE IF r.mode = "empty" THEN Fetched(<<>>)
    ELSE Fetched(r.members)

\* The snapshot files the first of the invocations may find.
RunsFiles ==
    {NoFile, Doc("t0", EmptyMap)}
    \cup {Doc("t0", [s \in {"r1"} |-> e]) :
             e \in {ListEntry({"a"}),
                    DictEntry([k \in LegacyKinds |-> {"a"}]),
                    DictEntry([k \in KindSet |-> {}]),
                    DictEntry([k \in KindSet |-> {"a"}])}}

InitRuns ==
    /\ pc = "loading"
    /\ file \in RunsFiles
    /\ state = NoState
    /\ repos = <<>>
    /\ is_first_run = FALSE
    /\ ri = 1
    /\ ki = 1
    /\ to_save = EmptyMap
    /\ fetched = None
    /\ pending_notifications = <<>>
    /\ total_new = ZeroTotals
    /\ notifications_sent = 0
    /\ sent = <<>>
    /\ writes = 0
    /\ failed = {}
    /\ loaded = file
    /\ undelivered = 0
    /\ quota = 0
    /\ derived = NoDerived
    /\ run = 1
    /\ remote \in Remotes
    /\ previous = NoPrevious
    /\ resident = NoResident
    /\ FetchIdle

\* Lines 287-293 against the remote.  History: the members of the remote
\* collection that were there at the bootstrap run (the snapshot has no
\* last_run) and at the first run that tracks dependents for r1 (its stored
\* entry has no "dependents" key), and have been there at every run since.
LoadRemote ==
    /\ pc = "loading"
    /\ LoadWith(Watched)
    /\ LET there == IdentitySet(remote.members)
       IN  resident' =
             [bootstrap |-> IF file.last_run = NoTimestamp THEN there
                            ELSE resident.bootstrap \cap there,
              tracking |-> IF remote.kind # "dependents" THEN {}
                           ELSE IF ~HadDependentsTracking(load_state(file), "r1")
                           THEN there
                           ELSE resident.tracking \cap there]
    /\ UNCHANGED <<run, remote, previous>>

\* The block of the next kind against the remote.
ReconcileRemote ==
    /\ pc = "reconciling"
    /\ Reconcile(Answer(remote, Kinds[ki]))

\* Lines 425-426: the script is started again after the invocation before
\* it ended; GitHub may hold and answer something else by then.  History:
\* whether this invocation repeats one that aborted, against the same remote,
\* and what that one had derived.
Restart ==
    /\ pc \in {"done", "aborted"}
    /\ run < MaxRuns
    /\ \E r \in Remotes :
        /\ r.kind = remote.kind
        /\ remote' = r
        /\ previous' = IF pc = "aborted" /\ r = remote
                       THEN [rerun |-> TRUE, derived |-> derived]
                       ELSE NoPrevious
    /\ run' = run + 1
    /\ pc' = "loading"
    /\ loaded' = file
    /\ state' = NoState
    /\ repos' = <<>>
    /\ is_first_run' = FALSE
    /\ ri' = 1
    /\ ki' = 1
    /\ to_save' = EmptyMap
    /\ fetched' = None
    /\ pending_notifications' = <<>>
    /\ total_new' = ZeroTotals
    /\ notifications_sent' = 0
    /\ sent' = <<>>
    /\ writes' = 0
    /\ failed' = {}
    /\ undelivered' = 0
    /\ quota' = 0
    /\ derived' = NoDerived
    /\ UNCHANGED <<file, resident, fetchVars>>

NextRuns ==
    \/ LoadRemote
    \/ LoadRaise
    \/ ReconcileRemote
    \/ ReconcileRaise
    \/ NotifyOne
    \/ SummaryStep
    \/ NotifyRaise
    \/ SaveState
    \/ Restart

SpecRuns == InitRuns /\ [][NextRuns]_vars


\* ---------------------------------------------------------------- claims

\* The set the snapshot file f holds for subject s and kind k: a legacy list
\* is the stars, an absent entry or key is the empty set.
StoredSet(f, s, k) ==
    IF s \notin DOMAIN f.repos THEN {}
    ELSE IF f.repos[s].shape = "list"
         THEN (IF k = "stars" THEN f.repos[s].items ELSE {})
         ELSE IF k \in DOMAIN f.repos[s].kinds THEN f.repos[s].kinds[k] ELSE {}

\* A step that runs one kind block to its end.
ReconcileStep == pc = "reconciling" /\ pc' # "aborted"

\* Of such a step: the known set K, the identity set C of the fetched
\* records, the next-state it computes, the events it counts, the messages
\* it queues.
StepKnown == StoredSet(loaded, repos[ri], Kinds[ki])
StepCurrent == {fetched'.records[i] : i \in DOMAIN fetched'.records}
StepValue ==
    IF ki < Len(Kinds) THEN to_save'[Kinds[ki]]
    ELSE state'.repos[repos[ri]].kinds[Kinds[ki]]
StepCounted == total_new'[Kinds[ki]] - total_new[Kinds[ki]]
StepQueued ==
    SubSeq(pending_notifications', Len(pending_notifications) + 1,
           Len(pending_notifications'))
StepOthersKept ==
    /\ \A k \in KindSet \ {Kinds[ki]} : total_new'[k] = total_new[k]
    /\ Len(pending_notifications') >= Len(pending_notifications)
    /\ SubSeq(pending_notifications', 1, Len(pending_notifications))
         = pending_notifications
StepSuspicious == StepCurrent = {} /\ StepKnown # {}
StepGoesOn ==
    /\ pc' \in {"reconciling", "notifying"}
    /\ \/ ki < Len(Kinds) /\ ki' = ki + 1 /\ ri' = ri /\ pc' = "reconciling"
       \/ ki = Len(Kinds) /\ ki' = 1 /\ ri' = ri + 1
          /\ pc' = (IF ri < Len(repos) THEN "reconciling" ELSE "notifying")

\* The value the run holds for the snapshot entry (s, k) once the block of
\* (s, k) has run: in memory, and in the file once it is written.
SavedValue(s, k) ==
    IF pc = "done" THEN file.repos[s].kinds[k]
    ELSE IF pc = "reconciling" /\ repos[ri] = s THEN to_save[k]
    ELSE state.repos[s].kinds[k]

C1_Kept ==
    \A p \in failed : SavedValue(p[1], p[2]) = StoredSet(loaded, p[1], p[2])
C1_Step ==
    (ReconcileStep /\ ~fetched'.ok) =>
        /\ StepValue = StepKnown
        /\ total_new' = total_new
        /\ pending_notifications' = pending_notifications
        /\ failed' = failed \cup {<<repos[ri], Kinds[ki]>>}
        /\ StepGoesOn

\* C1: when the get_* call of a (subject, kind) returns None, the value kept
\* for the snapshot is the previously known set K, through to the file that
\* is written; the block counts no event and queues no message, and main()
\* goes on with the next kind, repo or stage.
C1_FetchFailedKeepsKnown == []C1_Kept /\ [][C1_Step]_vars

\* A finished run over r1, r2 in which the stars fetch of r1 failed, the
\* stored stars of r1 were written back, and the forks of r1 and the stars
\* of r2 were reconciled after it.
C1_Witness ==
    /\ pc = "done"
    /\ repos = <<"r1", "r2">>
    /\ <<"r1", "stars">> \in failed
    /\ StoredSet(loaded, "r1", "stars") = {"a"}
    /\ file.repos["r1"].kinds["stars"] = {"a"}
    /\ StoredSet(loaded, "r1", "forks") = {}
    /\ file.repos["r1"].kinds["forks"] = {"b"}
    /\ file.repos["r2"].kinds["stars"] = {"a"}
    /\ StoredSet(loaded, "r2", "stars") = {}

C2_Step ==
    (ReconcileStep /\ fetched'.ok /\ StepSuspicious) =>
        /\ StepValue = StepKnown
        /\ total_new' = total_new
        /\ pending_notifications' = pending_notifications

\* C2: anti-flap guard: a fetch that succeeds with no record while K is not
\* empty leaves K as the next-state, counts no event, queues no message.
C2_AntiFlap == [][C2_Step]_vars

\* After the stars block of a run that is not the first: the fetch returned
\* the empty list, {a, b} was known and is kept.
C2_Witness ==
    /\ pc = "reconciling"
    /\ ki = 2
    /\ ~is_first_run
    /\ fetched = Fetched(<<>>)
    /\ StoredSet(loaded, repos[ri], "stars") = {"a", "b"}
    /\ to_save["stars"] = {"a", "b"}
    /\ pending_notifications = <<>>

\* Whether the block of this step queues messages at all.
StepNotifies ==
    /\ loaded.last_run # NoTimestamp
    /\ Kinds[ki] = "dependents" =>
         /\ repos[ri] \in DOMAIN loaded.repos
         /\ loaded.repos[repos[ri]].shape = "dict"
         /\ "dependents" \in DOMAIN loaded.repos[repos[ri]].kinds

C3_Step ==
    (ReconcileStep /\ fetched'.ok /\ ~StepSuspicious) =>
        /\ StepValue = StepCurrent
        /\ StepCounted = Cardinality(StepCurrent \ StepKnown)
        /\ StepNotifies =>
             /\ Len(StepQueued) = Cardinality(StepCurrent \ StepKnown)
             /\ \A m \in StepCurrent \ StepKnown :
                  \E i \in DOMAIN StepQueued : StepQueued[i].member = m

\* C3: monotonic convergence: a fetch that succeeded and is not suspiciously
\* empty makes C the next-state and yields exactly one event per identity of
\* C - K, none for an identity of K, whatever the order of the records and
\* also when several records carry the same identity.
C3_OneEventPerNewIdentity == [][C3_Step]_vars

\* The number of fetched records whose identity is not known.
CountNew(recs, known) == Cardinality({i \in DOMAIN recs : recs[i] \notin known})

C4_Silent ==
    loaded.last_run = NoTimestamp =>
        /\ sent = <<>>
        /\ pending_notifications = <<>>
        /\ undelivered = 0
        /\ pc = "done" =>
             /\ file.exists
             /\ file.last_run # NoTimestamp
             /\ file.repos = state.repos
             /\ \A s \in IdentitySet(repos), k \in KindSet :
                  StoredSet(loaded, s, k) = {} =>
                      Cardinality(file.repos[s].kinds[k]) <= total_new[k]
C4_Step ==
    (loaded.last_run = NoTimestamp /\ ReconcileStep /\ fetched'.ok
        /\ ~StepSuspicious) =>
        /\ StepValue = StepCurrent
        /\ StepCounted = CountNew(fetched'.records, StepKnown)
        /\ StepOthersKept

\* C4: in a run whose snapshot has no last-run timestamp nothing is queued
\* and nothing is sent; each block whose fetch succeeded still counts its new
\* records as events and takes C as the next-state, and the file the run
\* writes holds them and a timestamp.
C4_BootstrapSilent == []C4_Silent /\ [][C4_Step]_vars

\* The first run ever, finished: r1's stargazers a, b are in the file, two
\* events were counted, nothing was sent.
C4_Witness ==
    /\ pc = "done"
    /\ loaded = NoFile
    /\ repos = <<"r1">>
    /\ file.last_run = "t1"
    /\ file.repos["r1"].kinds["stars"] = {"a", "b"}
    /\ total_new["stars"] = 2
    /\ sent = <<>>

\* The individual messages among the sent ones, and the summaries.
Individual(msgs) == SelectSeq(msgs, LAMBDA m : m.type = "event")
Summaries(msgs) == SelectSeq(msgs, LAMBDA m : m.type = "summary")

\* C5: batching cap: of P pending messages a run sends the first min(P, 20)
\* individually, in order; a run that gets through its sends has sent
\* exactly those, followed by one summary stating P - 20 when P > 20 and by
\* nothing otherwise.
C5_BatchingCap ==
    pc \in {"notifying", "persisting", "done"} =>
        LET P == Len(pending_notifications)
            n == IF P <= MAX_NOTIFICATIONS THEN P ELSE MAX_NOTIFICATIONS
        IN  /\ Len(Individual(sent)) <= n
            /\ Individual(sent) = SubSeq(pending_notifications, 1, Len(Individual(sent)))
            /\ pc = "notifying" => Summaries(sent) = <<>>
            /\ pc \in {"persisting", "done"} =>
                 /\ Len(Individual(sent)) = n
                 /\ P <= MAX_NOTIFICATIONS => sent = Individual(sent)
                 /\ P > MAX_NOTIFICATIONS =>
                      /\ Len(sent) = n + 1
                      /\ sent[n + 1].type = "summary"
                      /\ sent[n + 1].more = P - MAX_NOTIFICATIONS
                      /\ SubSeq(sent, 1, n) = Individual(sent)

\* 25 pending: 20 individual messages, then the summary "+5 more".
C5_Witness ==
    /\ pc = "done"
    /\ Len(pending_notifications) = 25
    /\ Len(sent) = 21
    /\ \A i \in 1..20 : sent[i] = pending_notifications[i]
    /\ sent[21].type = "summary"
    /\ sent[21].more = 5

\* C6: a notify_matrix call that fails does not abort the run, and the
\* snapshot is still written: no run is aborted with an undelivered message,
\* and a run with one ends having written the file.
C6_DeliveryFailureTolerated ==
    undelivered > 0 => pc # "aborted"

\* The records of a sequence of pages, in page order.
RECURSIVE Concat(_)
Concat(ps) == IF Len(ps) = 0 THEN <<>> ELSE Head(ps) \o Concat(Tail(ps))

\* C7: no error becomes a collection: a call whose retries ran out on some
\* page, or whose dependents page lacks #dependents, returns None; a call
\* returns records only when every page of it arrived.
C7_ErrorsAreNotEmpty ==
    /\ (fres # Running /\ last_attempt.exhausted) => fres = Returned(None)
    /\ (fres # Running /\ fn = "dependents" /\ last_attempt.met = "page"
          /\ ~html.landmark) => fres = Returned(None)
    /\ (fres.status = "returned" /\ fres.value.ok) =>
          /\ last_attempt.met = "page"
          /\ ~last_attempt.exhausted
          /\ fn = "dependents" => html.landmark
          /\ fn # "dependents" => url = 0 /\ Len(fres.value.records) = Len(Concat(remote_pages))

\* The retries ran out on the second page, by an exception and then
\* statuses: the record of the first page is not returned.
C7_Witness ==
    /\ fn = "forks"
    /\ fres = Returned(None)
    /\ url = 2
    /\ results = <<"a">>
    /\ last_attempt.exhausted
    /\ last_attempt.met = "status"
    /\ last_error

\* C8 as claimed: the sleep on a retried status is the maximum of the
\* Retry-After value and 2^a, and every request exception sleeps 2^a.
C8_SleepIsMaximum ==
    /\ (last_attempt.met = "status" /\ ~last_attempt.header.present) =>
          last_attempt.slept /\ last_attempt.secs = 2 ^ last_attempt.attempt
    /\ (last_attempt.met = "status" /\ last_attempt.header.present
          /\ last_attempt.header.text \in {"0", "1", "3", "5"}) =>
          /\ last_attempt.slept
          /\ last_attempt.secs >= 2 ^ last_attempt.attempt
          /\ last_attempt.secs >= IntText[last_attempt.header.text]
          /\ last_attempt.secs \in {2 ^ last_attempt.attempt,
                                    IntText[last_attempt.header.text]}
    /\ last_attempt.met = "exception" =>
          last_attempt.slept /\ last_attempt.secs = 2 ^ last_attempt.attempt

\* C8, amended: on a retried status at attempt a the fetcher sleeps the
\* Retry-After seconds when the header holds a non-negative integer, be it
\* smaller than 2^a or not, and 2^a seconds when there is no header; on a
\* request exception it sleeps 2^a seconds, except at the last attempt,
\* where it does not sleep.
C8_SleepIsRetryAfterOrBackoff ==
    /\ last_attempt.attempt \in 0..(max_retries - 1)
    /\ (last_attempt.met = "status" /\ ~last_attempt.header.present) =>
          last_attempt.slept /\ last_attempt.secs = 2 ^ last_attempt.attempt
    /\ (last_attempt.met = "status" /\ last_attempt.header.present
          /\ last_attempt.header.text \in {"0", "1", "3", "5"}) =>
          last_attempt.slept /\ last_attempt.secs = IntText[last_attempt.header.text]
    /\ (last_attempt.met = "exception" /\ last_attempt.attempt < max_retries - 1) =>
          last_attempt.slept /\ last_attempt.secs = 2 ^ last_attempt.attempt
    /\ (last_attempt.met = "exception" /\ last_attempt.attempt = max_retries - 1) =>
          ~last_attempt.slept

\* Retry-After: 1 on the third attempt: one second slept, not four.
C8_Witness ==
    /\ last_attempt.met = "status"
    /\ last_attempt.attempt = 2
    /\ last_attempt.header = Header("1")
    /\ last_attempt.slept
    /\ last_attempt.secs = 1

\* C9: pagination: github_request holds the records of the pages before the
\* one it is getting, in page order, each once, and returns those of all
\* pages; the attempts at a page count from 0 whatever the pages before
\* needed.
C9_PaginationComplete ==
    fn # "dependents" =>
        /\ fres = Running =>
             /\ url \in 1..Len(remote_pages)
             /\ results = Concat(SubSeq(remote_pages, 1, url - 1))
             /\ attempt = page_failures
             /\ attempt < max_retries
        /\ (fres.status = "returned" /\ fres.value.ok) =>
             fres.value.records = Concat(remote_pages)

\* Three pages, each got at its third attempt: all three records returned.
C9_Witness ==
    /\ fn = "stars"
    /\ remote_pages = << <<"a">>, <<"b">>, <<"a">> >>
    /\ fres = Returned(Fetched(<<"a", "b", "a">>))
    /\ all_failures = 6

Rank(p) ==
    CASE p = "loading" -> 1
      [] p = "reconciling" -> 2
      [] p = "notifying" -> 3
      [] p = "persisting" -> 4
      [] p = "done" -> 5
      [] OTHER -> 6

C10_Stages ==
    /\ pc \in {"loading", "reconciling"} => sent = <<>> /\ writes = 0
    /\ pc = "reconciling" => ri \in 1..Len(repos) /\ ki \in 1..Len(Kinds)
    /\ pc = "notifying" =>
          /\ writes = 0
          /\ to_save = EmptyMap
          /\ repos # <<>> => ri = Len(repos) + 1 /\ ki = 1
          /\ \A i \in DOMAIN repos :
                /\ repos[i] \in DOMAIN state.repos
                /\ state.repos[repos[i]].shape = "dict"
                /\ DOMAIN state.repos[repos[i]].kinds = KindSet
    /\ pc = "persisting" =>
          /\ writes = 0
          /\ notifications_sent = Len(Capped(pending_notifications))
    /\ pc = "aborted" => writes = 0 /\ file = loaded
    /\ pc = "done" => writes = 1 /\ file.repos = state.repos
    /\ writes <= 1
C10_Step ==
    /\ Rank(pc') >= Rank(pc)
    /\ (pc' # "aborted" /\ pc' # pc) =>
          \/ Rank(pc') = Rank(pc) + 1
          \/ pc = "loading" /\ pc' = "notifying" /\ repos' = <<>>
    /\ sent' # sent => pc = "notifying"
    /\ file' # file => pc = "persisting" /\ pc' = "done"

\* C10: the run goes through loading, reconciling, notifying, persisting and
\* done in this order and never back; nothing is sent before every listed
\* repo and kind is reconciled; the file is written only after the sends, at
\* most once, and exactly once in a run that reaches done.
C10_StrictlySequential == []C10_Stages /\ [][C10_Step]_vars

\* A finished run over two repos that sent two messages and wrote once.
C10_Witness ==
    /\ pc = "done"
    /\ Len(repos) = 2
    /\ Len(sent) = 2
    /\ sent[1].repo = "r1" /\ sent[2].repo = "r2"
    /\ writes = 1

\* The messages of a queue that tell of member m in the collection of kind k.
Tells(queue, k, m) == {i \in DOMAIN queue : queue[i].kind = k /\ queue[i].member = m}

\* C11: dependents tracking gate: a run that finds no "dependents" key in the
\* stored entry of a subject queues no dependents message for it; and a
\* dependent that was in the remote collection at the first run that tracks
\* dependents for the subject, and has been there since, is told of in no
\* message of that run or of a later one, whatever the fetches gave.
C11_OldDependentsNeverNotified ==
    /\ (pc \in {"reconciling", "notifying", "persisting", "done"}
          /\ ~HadDependentsTracking(load_state(loaded), "r1")) =>
          \A i \in DOMAIN pending_notifications :
              pending_notifications[i].kind # "dependents"
    /\ \A m \in resident.tracking :
          Tells(pending_notifications, "dependents", m) = {}

\* C12 as a state: an aborted run has left the snapshot file as it found it;
\* a run that repeats an aborted one against the same remote has, after as
\* many kind blocks, counted the same events and queued the same messages.
C12_State ==
    /\ pc = "aborted" => file = loaded /\ writes = 0
    /\ (previous.rerun /\ derived.blocks = previous.derived.blocks) =>
          /\ derived.pending = previous.derived.pending
          /\ derived.total = previous.derived.total
C12_Step ==
    /\ pc' = "aborted" => file' = file
    /\ (pc = "aborted" /\ pc' = "loading") => loaded' = loaded /\ file' = file
    /\ (run' # run /\ previous'.rerun) => pc = "aborted" /\ remote' = remote

\* C12: idempotence: a run that ends before save_state leaves the snapshot
\* file, its last_run included, unchanged, and the next run, against that
\* snapshot and the same remote data, derives the same events and the same
\* pending sequence.
C12_Idempotent == []C12_State /\ [][C12_Step]_vars

\* The second run has queued, after its four blocks, the two messages the
\* first run had queued before a notify_matrix call aborted it.
C12_Witness ==
    /\ run = 2
    /\ pc = "notifying"
    /\ previous.rerun
    /\ previous.derived.blocks = Len(Kinds)
    /\ Len(previous.derived.pending) = 2
    /\ derived = previous.derived
    /\ pending_notifications = derived.pending

C16_Step ==
    \A s \in Subjects, k \in KindSet :
        StoredSet(file, s, k) # {} => StoredSet(file', s, k) # {}

\* C16: a known set that is not empty in the snapshot file is not empty in
\* the file any run writes after it, whether its fetches fail, come back
\* empty or come back with records.
C16_NeverEmptied == [][C16_Step]_vars

\* The first run stored the forks b, a; the second got an empty result for
\* them and wrote them again.
C16_Witness ==
    /\ run = 2
    /\ pc = "done"
    /\ remote.kind = "forks"
    /\ remote.mode = "empty"
    /\ StoredSet(loaded, "r1", "forks") = {"a", "b"}
    /\ StoredSet(file, "r1", "forks") = {"a", "b"}

\* C18: a member that was in the remote collection at the bootstrap run, and
\* has been there since, is told of in no message of a later run, also when
\* the fetch of its kind failed in the bootstrap run.
C18_BootstrapMembersNeverNotified ==
    \A m \in resident.bootstrap :
        Tells(pending_notifications, remote.kind, m) = {}

\* Where a repo stands in the listing and a kind in the loop body.
Pos(s) == CHOOSE i \in DOMAIN repos : repos[i] = s
KindRank(k) == CHOOSE i \in DOMAIN Kinds : Kinds[i] = k

\* The members a sequence of messages tells of, in its order.
MembersOf(msgs) == [i \in DOMAIN msgs |-> msgs[i].member]

C13_State ==
    /\ \A i, j \in DOMAIN pending_notifications :
          i < j =>
            LET m == pending_notifications[i]
                n == pending_notifications[j]
            IN  \/ Pos(m.repo) < Pos(n.repo)
                \/ m.repo = n.repo /\ KindRank(m.kind) <= KindRank(n.kind)
    /\ pc \in {"loading", "reconciling", "notifying", "persisting", "done"} =>
          /\ Individual(sent) = SubSeq(pending_notifications, 1, notifications_sent)
          /\ notifications_sent <= Min(Len(pending_notifications), MAX_NOTIFICATIONS)
    /\ pc \in {"persisting", "done"} =>
          notifications_sent = Min(Len(pending_notifications), MAX_NOTIFICATIONS)
C13_Step ==
    /\ ReconcileStep =>
          /\ StepOthersKept
          /\ \A i \in DOMAIN StepQueued :
                StepQueued[i].repo = repos[ri] /\ StepQueued[i].kind = Kinds[ki]
          /\ (fetched'.ok /\ ~StepSuspicious /\ StepNotifies) =>
                MembersOf(StepQueued) =
                  SelectSeq(fetched'.records, LAMBDA r : r \notin StepKnown)
    /\ (pc = "notifying" /\ pc' = "notifying" /\ sent' # sent) =>
          sent' = Append(sent, pending_notifications[Len(sent) + 1])

\* C13: notification order: the messages are queued, and sent, in the order
\* of discovery: repos in the order of the listing, within a repo stars,
\* forks, watchers, dependents, within a kind the order of the fetched
\* records; the messages sent one by one are the first min(P, 20) of them.
C13_NotificationOrder == []C13_State /\ [][C13_Step]_vars

\* Two new forks of r1, fetched b before a, and a new stargazer of r2, sent
\* in this order.
C13_Witness ==
    /\ pc = "done"
    /\ repos = <<"r1", "r2">>
    /\ sent = <<Message("r1", "forks", "b"), Message("r1", "forks", "a"),
                Message("r2", "stars", "a")>>

\* A listed repo whose stored entry is a legacy list.
StepLegacy ==
    /\ repos[ri] \in DOMAIN loaded.repos
    /\ loaded.repos[repos[ri]].shape = "list"

C14_Step ==
    (ReconcileStep /\ StepLegacy) =>
        LET items == loaded.repos[repos[ri]].items
            kind == Kinds[ki]
        IN  /\ kind = "stars" =>
                 /\ ~fetched'.ok => StepValue = items
                 /\ (fetched'.ok /\ StepCurrent = {}) =>
                       StepValue = items /\ StepCounted = 0
                 /\ (fetched'.ok /\ StepCurrent # {}) =>
                       /\ StepValue = StepCurrent
                       /\ StepCounted = CountNew(fetched'.records, items)
            /\ kind # "stars" =>
                 /\ ~fetched'.ok => StepValue = {}
                 /\ fetched'.ok =>
                       /\ StepValue = StepCurrent
                       /\ StepCounted = Len(fetched'.records)
            /\ kind = "dependents" => pending_notifications' = pending_notifications
C14_State ==
    /\ pc \in {"notifying", "persisting"} =>
          \A s \in IdentitySet(repos) :
              state.repos[s].shape = "dict" /\ DOMAIN state.repos[s].kinds = KindSet
    /\ pc = "done" =>
          \A s \in IdentitySet(repos) :
              file.repos[s].shape = "dict" /\ DOMAIN file.repos[s].kinds = KindSet

\* C14: legacy migration: a stored entry that is a bare list is read as the
\* known stars, the known forks, watchers and dependents being empty; for
\* these three the anti-flap guard never fires (what was fetched is taken,
\* every record counted as new); no dependents message is queued for the
\* repo; and every listed repo ends the run with a dict of all four kinds,
\* in memory and in the file.
C14_LegacyMigration == []C14_State /\ [][C14_Step]_vars

\* A run that found the list [a, b] for r1: the stars are kept through a
\* failed fetch, fork a is told of, dependent b is counted and not told of.
C14_Witness ==
    /\ pc = "done"
    /\ repos = <<"r1">>
    /\ loaded.last_run = "t0"
    /\ "r1" \in DOMAIN loaded.repos
    /\ loaded.repos["r1"] = ListEntry({"a", "b"})
    /\ <<"r1", "stars">> \in failed
    /\ file.repos["r1"] =
         DictEntry([k \in KindSet |->
                      IF k = "stars" THEN {"a", "b"}
                      ELSE IF k = "forks" THEN {"a"}
                      ELSE IF k = "watchers" THEN {} ELSE {"b"}])
    /\ sent = <<Message("r1", "forks", "a")>>
    /\ total_new["dependents"] = 1

\* C15: a get_stargazers, get_forks, get_watchers or get_dependents call
\* ends by returning records or None, whatever the remote answers: no
\* exception leaves it.
C15_FetchIsTotal == fres.status \in {"running", "returned"}

\* C17: a message beyond the cap is not sent by itself and its member is in
\* the snapshot file when the run has ended.
C17_OverflowAbsorbed ==
    pc \in {"done", "aborted"} =>
        \A i \in DOMAIN derived.pending :
            i > MAX_NOTIFICATIONS =>
                /\ \A j \in DOMAIN sent : sent[j] # derived.pending[i]
                /\ derived.pending[i].member \in
                     StoredSet(file, derived.pending[i].repo, derived.pending[i].kind)

\* A listed repo without a stored entry, in a run that is not the first.
StepNewSubject ==
    /\ repos[ri] \notin DOMAIN loaded.repos
    /\ loaded.last_run # NoTimestamp

C19_Step ==
    (ReconcileStep /\ StepNewSubject) =>
        /\ ~fetched'.ok => StepValue = {} /\ StepCounted = 0 /\ StepQueued = <<>>
        /\ fetched'.ok =>
             /\ StepValue = StepCurrent
             /\ StepCounted = Len(fetched'.records)
             /\ Kinds[ki] # "dependents" =>
                   /\ MembersOf(StepQueued) = fetched'.records
                   /\ \A i \in DOMAIN StepQueued :
                         StepQueued[i].repo = repos[ri] /\ StepQueued[i].kind = Kinds[ki]
             /\ Kinds[ki] = "dependents" => StepQueued = <<>>

\* C19: a repo that is listed for the first time on a run that is not the
\* first has no known member of any kind: every fetched stargazer, fork and
\* watcher of it is counted and queues a message, every fetched dependent is
\* counted and queues none.
C19_NewSubjectNotifies == [][C19_Step]_vars

\* r1 appears on a later run: its stargazer a and watcher b are told of,
\* its dependent a is stored without a message.
C19_Witness ==
    /\ pc = "done"
    /\ loaded = Doc("t0", EmptyMap)
    /\ repos = <<"r1">>
    /\ sent = <<Message("r1", "stars", "a"), Message("r1", "watchers", "b")>>
    /\ total_new["dependents"] = 1
    /\ file.repos["r1"].kinds["dependents"] = {"a"}

\* The stored repos that are not in the listing.
Unlisted == DOMAIN loaded.repos \ IdentitySet(repos)

C20_State ==
    /\ pc \in {"reconciling", "notifying", "persisting"} =>
          \A s \in Unlisted : s \in DOMAIN state.repos /\ state.repos[s] = loaded.repos[s]
    /\ pc = "done" =>
          /\ DOMAIN file.repos = DOMAIN loaded.repos \cup IdentitySet(repos)
          /\ \A s \in Unlisted : file.repos[s] = loaded.repos[s]
    /\ pc = "aborted" => file = loaded
C20_Step ==
    (pc = "loading" /\ pc' = "aborted") =>
        file' = file /\ writes' = 0 /\ sent' = <<>>

\* C20: frame: a run writes back unchanged the entry of every stored repo
\* that is not in the listing, and adds or rewrites only the entries of the
\* listed ones; when get_org_repos() raises, the run ends there and the file
\* is as it was.
C20_Frame == []C20_State /\ [][C20_Step]_vars

\* r2 is stored and no longer listed: its legacy entry is in the file the
\* run wrote, beside the rewritten entry of r1.
C20_Witness ==
    /\ pc = "done"
    /\ repos = <<"r1">>
    /\ "r2" \in DOMAIN loaded.repos
    /\ loaded.repos["r2"] = ListEntry({"a"})
    /\ file.repos["r2"] = ListEntry({"a"})
    /\ file.repos["r1"].shape = "dict"
    /\ file.repos["r1"] # loaded.repos["r1"]

=============================================================================
